---------------------------- MODULE Spec2Model ----------------------------
(***************************************************************************)
(* Model of src/common/fontutils.js: the descriptor parsers, the family    *)
(* normalizer, rangeContains, query / tryQuery over document.fonts, and    *)
(* the async load.                                                         *)
(*                                                                         *)
(* A JavaScript string is a sequence of one-character strings, so that     *)
(* trim, toLowerCase, split, the regular expressions and parseFloat are    *)
(* computed character by character.  A JavaScript number is an exact       *)
(* decimal [m |-> mantissa, d |-> number of fraction digits], kept in      *)
(* canonical form (no trailing fraction zero), so 62.5 is [m |-> 625,      *)
(* d |-> 1].                                                               *)
(***************************************************************************)
EXTENDS Integers, Sequences, FiniteSets, TLC

VARIABLES
  str,      \* SpecParse: the shorthand string handed to parseFontWeight
  parsed,   \* SpecParse: what parseFontWeight did with str
  fonts,    \* document.fonts: the FontFace entries in insertion order
  call,     \* the last call of query / tryQuery / load and its outcome
            \* (for load also whether it ran document.fonts.add)
  promise,  \* per FontFace id, the state of the promise font.load() returns
  ncalls    \* number of load calls made so far

vars == <<str, parsed, fonts, call, promise, ncalls>>

-----------------------------------------------------------------------------
(* Bounds of the model *)

\* longest shorthand string of SpecParse, counted in pieces of PiecePool
MaxPieces == 4
\* most entries document.fonts holds before the call of SpecQuery
MaxInitFonts == 2
\* most entries document.fonts holds before the first load call of Spec
MaxLoadInit == 1
\* most load calls in one behaviour of Spec
MaxCalls == 2

-----------------------------------------------------------------------------
(* JavaScript values *)

\* the value undefined (no string of the model is this one-element sequence)
Undefined == <<"undefined">>

\* falsy strings: undefined and the empty string
Truthy(s) == s # Undefined /\ s # <<>>

Digit == {"0", "1", "2", "3", "4", "5", "6", "7", "8", "9"}

DigitVal(c) ==
  CASE c = "0" -> 0 [] c = "1" -> 1 [] c = "2" -> 2 [] c = "3" -> 3
    [] c = "4" -> 4 [] c = "5" -> 5 [] c = "6" -> 6 [] c = "7" -> 7
    [] c = "8" -> 8 [] c = "9" -> 9

UpperCase == <<"A", "B", "C", "D", "E", "F", "G", "H", "I", "J", "K", "L", "M",
               "N", "O", "P", "Q", "R", "S", "T", "U", "V", "W", "X", "Y", "Z">>
LowerCase == <<"a", "b", "c", "d", "e", "f", "g", "h", "i", "j", "k", "l", "m",
               "n", "o", "p", "q", "r", "s", "t", "u", "v", "w", "x", "y", "z">>

\* String.prototype.toLowerCase
ToLowerCase(s) ==
  [i \in 1..Len(s) |->
     IF \E k \in 1..26 : UpperCase[k] = s[i]
       THEN LowerCase[CHOOSE k \in 1..26 : UpperCase[k] = s[i]]
       ELSE s[i]]

\* the regular expression class \s
IsSpace(c) == c \in {" ", "\t", "\n", "\r"}

SetMin(S) == CHOOSE x \in S : \A y \in S : x <= y
SetMax(S) == CHOOSE x \in S : \A y \in S : x >= y

\* String.prototype.trim
Trim(s) ==
  LET keep == {i \in 1..Len(s) : ~IsSpace(s[i])}
  IN  IF keep = {} THEN <<>> ELSE SubSeq(s, SetMin(keep), SetMax(keep))

\* String.prototype.split(/\s+/): the pieces between maximal runs of white
\* space; a string without white space (the empty one too) is one piece
RECURSIVE SplitWs(_)
SplitWs(s) ==
  LET sp == {i \in 1..Len(s) : IsSpace(s[i])}
  IN  IF sp = {} THEN <<s>>
      ELSE LET first == SetMin(sp)
               after == {i \in first..Len(s) : ~IsSpace(s[i])}
               rest  == IF after = {} THEN <<>>
                        ELSE SubSeq(s, SetMin(after), Len(s))
           IN  <<SubSeq(s, 1, first - 1)>> \o SplitWs(rest)

\* String.prototype.substring(a, b) with 0-based arguments: the arguments are
\* clamped to the length and swapped when a > b
Substring(s, a, b) ==
  LET ca == IF a < 0 THEN 0 ELSE IF a > Len(s) THEN Len(s) ELSE a
      cb == IF b < 0 THEN 0 ELSE IF b > Len(s) THEN Len(s) ELSE b
      lo == IF ca <= cb THEN ca ELSE cb
      hi == IF ca <= cb THEN cb ELSE ca
  IN  SubSeq(s, lo + 1, hi)

AllDigits(s) == \A i \in 1..Len(s) : s[i] \in Digit

-----------------------------------------------------------------------------
(* Numbers *)

NaN == [nan |-> TRUE]
IsNaN(x) == "nan" \in DOMAIN x

\* the value undefined where a number is expected (range[i] never assigned,
\* or a keyword the Map does not hold)
NoNumber == [undef |-> TRUE]

RECURSIVE Pow10(_)
Pow10(n) == IF n = 0 THEN 1 ELSE 10 * Pow10(n - 1)

\* canonical form of m / 10^d
RECURSIVE Canon(_, _)
Canon(m, d) ==
  IF d > 0 /\ m % 10 = 0 THEN Canon(m \div 10, d - 1) ELSE [m |-> m, d |-> d]

Num(n) == [m |-> n, d |-> 0]

\* the integer part (floor) and the fraction part of a number
Floor(a) == a.m \div Pow10(a.d)
Frac(a)  == a.m % Pow10(a.d)

\* the sign of a - b on numbers: by the integer parts, and by the fraction
\* parts when these are equal
Cmp(a, b) ==
  IF Floor(a) # Floor(b) THEN Floor(a) - Floor(b)
  ELSE Frac(a) * Pow10(b.d) - Frac(b) * Pow10(a.d)
\* a <= b on numbers
Leq(a, b) == Cmp(a, b) <= 0
\* x < lo || x > hi on numbers
Outside(x, lo, hi) == LET c == <<Cmp(x, lo), Cmp(x, hi)>> IN c[1] < 0 \/ c[2] > 0

RECURSIVE DigitsValue(_)
DigitsValue(s) ==
  IF s = <<>> THEN 0
  ELSE 10 * DigitsValue(SubSeq(s, 1, Len(s) - 1)) + DigitVal(s[Len(s)])

\* the longest prefix of s made of digits
DigitPrefix(s) ==
  LET stop == {i \in 1..Len(s) : s[i] \notin Digit}
  IN  IF stop = {} THEN s ELSE SubSeq(s, 1, SetMin(stop) - 1)

\* parseFloat: the number spelled by the longest prefix of the form
\* sign? digits* (. digits*)? holding at least one digit, NaN when there is
\* none.  (An exponent part would need the letter e right after the digits;
\* no string of the model has one there.)
ParseFloat(s) ==
  LET neg  == Len(s) >= 1 /\ s[1] = "-"
      body == IF Len(s) >= 1 /\ s[1] \in {"-", "+"} THEN Tail(s) ELSE s
      int  == DigitPrefix(body)
      rest == SubSeq(body, Len(int) + 1, Len(body))
      frac == IF Len(rest) >= 1 /\ rest[1] = "." THEN DigitPrefix(Tail(rest))
              ELSE <<>>
      mag  == DigitsValue(int) * Pow10(Len(frac)) + DigitsValue(frac)
  IN  IF Len(int) = 0 /\ Len(frac) = 0 THEN NaN
      ELSE Canon(IF neg THEN 0 - mag ELSE mag, Len(frac))

\* the regular expression /^[0-9]*(.[0-9]+)?$/ of parseFontWeight: digits,
\* then optionally ANY one character followed by at least one digit (the dot
\* of the source is not escaped)
MatchNumber(t) ==
  \E k \in 0..Len(t) :
     /\ AllDigits(SubSeq(t, 1, k))
     /\ \/ k = Len(t)
        \/ /\ Len(t) >= k + 2
           /\ AllDigits(SubSeq(t, k + 2, Len(t)))


\* the regular expression /^-?[0-9]*(.[0-9]+)?deg$/ of parseFontStyle
MatchAngle(t) ==
  /\ Len(t) >= 3
  /\ SubSeq(t, Len(t) - 2, Len(t)) = <<"d", "e", "g">>
  /\ LET p == SubSeq(t, 1, Len(t) - 3)
     IN  \/ MatchNumber(p)
         \/ Len(p) >= 1 /\ p[1] = "-" /\ MatchNumber(Tail(p))

\* the regular expression /^[0-9]*(.[0-9]+)?%$/ of parseFontStretch
MatchPercent(t) ==
  /\ Len(t) >= 1
  /\ t[Len(t)] = "%"
  /\ MatchNumber(SubSeq(t, 1, Len(t) - 1))

-----------------------------------------------------------------------------
(* Errors and results *)

\* throw new SyntaxError(`invalid font <field> '${str}'`)
SyntaxError(field, raw) ==
  [name |-> "SyntaxError", field |-> field, raw |-> raw]

Ok(v)    == [ok |-> TRUE, val |-> v]
Fail(e)  == [ok |-> FALSE, err |-> e]

-----------------------------------------------------------------------------
(* The descriptor parsers *)

KwNormal  == <<"n", "o", "r", "m", "a", "l">>
KwItalic  == <<"i", "t", "a", "l", "i", "c">>
KwOblique == <<"o", "b", "l", "i", "q", "u", "e">>
KwBold    == <<"b", "o", "l", "d">>

styleKeywords == {KwNormal, KwItalic, KwOblique}

defaultObliqueAngle == Num(14)

\* one pass of the loop of parseFontStyle: range[i], or NaN / NoNumber
StyleAngle(part) ==
  IF MatchAngle(part) THEN ParseFloat(part) ELSE NoNumber

\* the test that makes a loop pass of parseFontStyle throw
StyleAngleBad(v) ==
  v = NoNumber \/ IsNaN(v) \/ Outside(v, Num(-90), Num(90))

\* lines 163-173: the angle range of an oblique style, r[i] being range[i]
\* after loop pass i
ObliqueRange(s, style, parts, r) ==
  IF \E i \in 1..Len(parts) : StyleAngleBad(r[i]) THEN
    Fail(SyntaxError("style", s))
  ELSE Ok([style |-> style,
           obliqueAngle |-> IF Len(parts) < 2 THEN <<r[1], r[1]>>
                            ELSE <<r[1], r[2]>>])

\* lines 150-173: style is parts.shift(), parts what is left
StyleOf(s, style, parts) ==
  IF style \notin styleKeywords THEN Fail(SyntaxError("style", s))
  ELSE IF style # KwOblique THEN
    IF Len(parts) > 0 THEN Fail(SyntaxError("style", s))
    ELSE Ok([style |-> style, obliqueAngle |-> Undefined])
  ELSE IF Len(parts) > 2 THEN Fail(SyntaxError("style", s))
  ELSE IF Len(parts) < 1 THEN
    Ok([style |-> style,
        obliqueAngle |-> <<defaultObliqueAngle, defaultObliqueAngle>>])
  ELSE ObliqueRange(s, style, parts,
                    [i \in 1..Len(parts) |-> StyleAngle(parts[i])])

StyleOfParts(s, all) == StyleOf(s, Head(all), Tail(all))

parseFontStyle(s) == StyleOfParts(s, SplitWs(ToLowerCase(Trim(s))))

\* keywords.get of parseFontWeight
weightKeyword(t) ==
  CASE t = KwNormal -> Num(400)
    [] t = KwBold   -> Num(700)
    [] OTHER        -> NoNumber

\* one pass of the loop of parseFontWeight: range[i], or NaN / NoNumber
WeightValue(part) ==
  IF MatchNumber(part) THEN ParseFloat(part) ELSE weightKeyword(part)

WeightBad(v) ==
  v = NoNumber \/ IsNaN(v) \/ Outside(v, Num(1), Num(1000))

\* lines 189-204: r[i] being range[i] after loop pass i
WeightRange(s, parts, r) ==
  IF Len(parts) < 1 \/ Len(parts) > 2 THEN Fail(SyntaxError("weight", s))
  ELSE IF \E i \in 1..Len(parts) : WeightBad(r[i]) THEN
    Fail(SyntaxError("weight", s))
  ELSE Ok(IF Len(parts) < 2 THEN <<r[1], r[1]>> ELSE <<r[1], r[2]>>)

WeightOfParts(s, parts) ==
  WeightRange(s, parts, [i \in 1..Len(parts) |-> WeightValue(parts[i])])

parseFontWeight(s) == WeightOfParts(s, SplitWs(ToLowerCase(Trim(s))))

\* keywords.get of parseFontStretch
stretchKeyword(t) ==
  CASE t = <<"u","l","t","r","a","-","c","o","n","d","e","n","s","e","d">>
         -> Num(50)
    [] t = <<"e","x","t","r","a","-","c","o","n","d","e","n","s","e","d">>
         -> [m |-> 625, d |-> 1]
    [] t = <<"c","o","n","d","e","n","s","e","d">>
         -> Num(75)
    [] t = <<"s","e","m","i","-","c","o","n","d","e","n","s","e","d">>
         -> [m |-> 875, d |-> 1]
    [] t = KwNormal
         -> Num(100)
    [] t = <<"s","e","m","i","-","e","x","p","a","n","d","e","d">>
         -> [m |-> 1125, d |-> 1]
    [] t = <<"e","x","p","a","n","d","e","d">>
         -> Num(125)
    [] t = <<"e","x","t","r","a","-","e","x","p","a","n","d","e","d">>
         -> Num(150)
    [] t = <<"u","l","t","r","a","-","e","x","p","a","n","d","e","d">>
         -> Num(200)
    [] OTHER -> NoNumber

StretchValue(part) ==
  IF MatchPercent(part) THEN ParseFloat(part) ELSE stretchKeyword(part)

StretchBad(v) ==
  v = NoNumber \/ IsNaN(v) \/ Outside(v, Num(1), Num(200))

\* lines 227-242: r[i] being range[i] after loop pass i
StretchRange(s, parts, r) ==
  IF Len(parts) < 1 \/ Len(parts) > 2 THEN Fail(SyntaxError("stretch", s))
  ELSE IF \E i \in 1..Len(parts) : StretchBad(r[i]) THEN
    Fail(SyntaxError("stretch", s))
  ELSE Ok(IF Len(parts) < 2 THEN <<r[1], r[1]>> ELSE <<r[1], r[2]>>)

StretchOfParts(s, parts) ==
  StretchRange(s, parts, [i \in 1..Len(parts) |-> StretchValue(parts[i])])

parseFontStretch(s) == StretchOfParts(s, SplitWs(ToLowerCase(Trim(s))))

\* mutant of rangeContains: strict on both sides
rangeContainsStrict(lhs, rhs) ==
  Cmp(lhs[1], rhs[1]) < 0 /\ Cmp(rhs[2], lhs[2]) < 0

\* mutant of rangeContains: a range to be tested whose first value is greater
\* than its second is contained in nothing
rangeContainsOrdered(lhs, rhs) ==
  Leq(rhs[1], rhs[2]) /\ Leq(lhs[1], rhs[1]) /\ Leq(rhs[2], lhs[2])

\* rangeContains: whether the first range contains the second
rangeContains(lhs, rhs) == Leq(lhs[1], rhs[1]) /\ Leq(rhs[2], lhs[2])

\* normalizeFontFamily
StripQuotes(ret) ==
  IF Len(ret) >= 1 /\ ret[1] = "\"" /\ ret[Len(ret)] = "\""
    THEN Trim(Substring(ret, 1, Len(ret) - 1))
    ELSE ret

normalizeFontFamily(s) == StripQuotes(ToLowerCase(Trim(s)))

-----------------------------------------------------------------------------
(* FontFace entries and the outcome of a call *)

\* a FontDescriptor: each field a shorthand string or undefined
Desc(style, weight, stretch) ==
  [style |-> style, weight |-> weight, stretch |-> stretch]

\* mutant of FontFace: the descriptors are not handed on
FontFaceNoDescriptors(id, family, source, desc) ==
  [id              |-> id,
   family          |-> family,
   source          |-> source,
   style           |-> KwNormal,
   weight          |-> KwNormal,
   stretch         |-> KwNormal,
   ascentOverride  |-> "normal",
   descentOverride |-> "normal",
   featureSettings |-> "normal",
   lineGapOverride |-> "normal",
   unicodeRange    |-> "U+0-10FFFF"]

\* new FontFace(family, source, {style, weight, stretch}): a descriptor left
\* undefined takes the FontFace default "normal"; the five other attributes
\* take their defaults
FontFace(id, family, source, desc) ==
  [id              |-> id,
   family          |-> family,
   source          |-> source,
   style           |-> IF desc.style = Undefined THEN KwNormal ELSE desc.style,
   weight          |-> IF desc.weight = Undefined THEN KwNormal ELSE desc.weight,
   stretch         |-> IF desc.stretch = Undefined THEN KwNormal ELSE desc.stretch,
   ascentOverride  |-> "normal",
   descentOverride |-> "normal",
   featureSettings |-> "normal",
   lineGapOverride |-> "normal",
   unicodeRange    |-> "U+0-10FFFF"]

\* a function returned v: for query the id of the FontFace found, 0 for
\* undefined
Return(v) == [kind |-> "return", font |-> v]
\* a function threw e
Throw(e)  == [kind |-> "throw", error |-> e]
\* what one pass of the loop of query does
Continue  == [kind |-> "continue"]
\* a step of the pass let the entry through
Pass      == [kind |-> "pass"]

-----------------------------------------------------------------------------
(* query *)

\* lines 47-48: the family test of one loop pass
FamilyMatches(entry, loadFamily) ==
  normalizeFontFamily(entry.family) = loadFamily

\* mutant of StructuralDefault: the unicodeRange test is left out
StructuralDefaultNoUnicodeRange(entry) ==
  /\ entry.ascentOverride = "normal"
  /\ entry.descentOverride = "normal"
  /\ entry.featureSettings = "normal"
  /\ entry.lineGapOverride = "normal"

\* lines 49-58: the five attributes that must hold their default
StructuralDefault(entry) ==
  /\ entry.ascentOverride = "normal"
  /\ entry.descentOverride = "normal"
  /\ entry.featureSettings = "normal"
  /\ entry.lineGapOverride = "normal"
  /\ entry.unicodeRange = "U+0-10FFFF"

\* mutant of StyleCheck: the angle check is skipped when the query's range is
\* the default one of bare oblique
StyleCheckSkipsDefaultAngle(entryStyle, loadDesc) ==
  IF ~entryStyle.ok THEN Throw(entryStyle.err)
  ELSE IF entryStyle.val.style # loadDesc.style.style THEN Continue
  ELSE IF /\ loadDesc.style.obliqueAngle # Undefined
          /\ loadDesc.style.obliqueAngle
               # <<defaultObliqueAngle, defaultObliqueAngle>>
          /\ ~rangeContains(entryStyle.val.obliqueAngle,
                            loadDesc.style.obliqueAngle)
    THEN Continue
  ELSE Pass

\* lines 60-65: the style step on the entry's parsed style (Pass: go on to
\* the next step of the pass)
StyleCheck(entryStyle, loadDesc) ==
  IF ~entryStyle.ok THEN Throw(entryStyle.err)
  ELSE IF entryStyle.val.style # loadDesc.style.style THEN Continue
  ELSE IF /\ loadDesc.style.obliqueAngle # Undefined
          /\ ~rangeContains(entryStyle.val.obliqueAngle,
                            loadDesc.style.obliqueAngle)
    THEN Continue
  ELSE Pass

\* lines 59-66: the style step of one loop pass
StyleStep(entry, desc, loadDesc) ==
  IF Truthy(desc.style)
    THEN StyleCheck(parseFontStyle(entry.style), loadDesc)
    ELSE Pass

\* mutant of RangeCheck: an entry whose shorthand does not parse is skipped
RangeCheckSkipsUnparseable(entryRange, loadRange) ==
  IF ~entryRange.ok THEN Continue
  ELSE IF ~rangeContains(entryRange.val, loadRange) THEN Continue
  ELSE Pass

\* lines 68-70 and 73-75: the weight or stretch step on the entry's parsed
\* range
RangeCheck(entryRange, loadRange) ==
  IF ~entryRange.ok THEN Throw(entryRange.err)
  ELSE IF ~rangeContains(entryRange.val, loadRange) THEN Continue
  ELSE Pass

\* mutant of WeightStep: a weight the query leaves out is taken as normal
WeightStepOmittedIsNormal(entry, desc, loadDesc) ==
  IF Truthy(desc.weight)
    THEN RangeCheck(parseFontWeight(entry.weight), loadDesc.weight)
    ELSE RangeCheck(parseFontWeight(entry.weight), <<Num(400), Num(400)>>)

\* lines 67-71: the weight step of one loop pass
WeightStep(entry, desc, loadDesc) ==
  IF Truthy(desc.weight)
    THEN RangeCheck(parseFontWeight(entry.weight), loadDesc.weight)
    ELSE Pass

\* lines 72-76: the stretch step of one loop pass
StretchStep(entry, desc, loadDesc) ==
  IF Truthy(desc.stretch)
    THEN RangeCheck(parseFontStretch(entry.stretch), loadDesc.stretch)
    ELSE Pass

\* sequencing of the steps of a pass: what step did unless it passed, and
\* then what the rest of the pass does
Then(step, rest) == IF step # Pass THEN step ELSE rest

\* lines 46-79: one pass of the loop over document.fonts.values(): the steps
\* in the order of the source, each reached only when the one before passed
EntryStep(entry, loadFamily, desc, loadDesc) ==
  IF ~FamilyMatches(entry, loadFamily) THEN Continue
  ELSE IF ~StructuralDefault(entry) THEN Continue
  ELSE Then(StyleStep(entry, desc, loadDesc),
       Then(WeightStep(entry, desc, loadDesc),
       Then(StretchStep(entry, desc, loadDesc),
            Return(entry.id))))

\* lines 44-83: the loop from entry i on, in the set's iteration order; step
\* is what the pass on entry i did
RECURSIVE Scan(_, _, _, _, _)
ScanStep(fs, i, loadFamily, desc, loadDesc, step) ==
  IF step = Continue THEN Scan(fs, i + 1, loadFamily, desc, loadDesc)
  ELSE step

Scan(fs, i, loadFamily, desc, loadDesc) ==
  IF i > Len(fs) THEN Return(0)
  ELSE ScanStep(fs, i, loadFamily, desc, loadDesc,
                EntryStep(fs[i], loadFamily, desc, loadDesc))

\* lines 43-83: the search, the descriptors of the query parsed
QueryParsed(fs, loadFamily, desc, st, wt, sr) ==
  IF ~st.ok THEN Throw(st.err)
  ELSE IF ~wt.ok THEN Throw(wt.err)
  ELSE IF ~sr.ok THEN Throw(sr.err)
  ELSE Scan(fs, 1, loadFamily, desc,
            [style |-> st.val, weight |-> wt.val, stretch |-> sr.val])

\* query(family, desc) over the registry fs
query(fs, family, desc) ==
  QueryParsed(fs, normalizeFontFamily(family), desc,
    IF Truthy(desc.style) THEN parseFontStyle(desc.style) ELSE Ok(Undefined),
    IF Truthy(desc.weight) THEN parseFontWeight(desc.weight) ELSE Ok(Undefined),
    IF Truthy(desc.stretch) THEN parseFontStretch(desc.stretch)
    ELSE Ok(Undefined))

\* Array.prototype.join
RECURSIVE Join(_, _)
Join(strs, sep) ==
  IF strs = <<>> THEN <<>>
  ELSE IF Len(strs) = 1 THEN strs[1]
  ELSE strs[1] \o sep \o Join(Tail(strs), sep)

\* Object.values(desc): the descriptors the object holds
DescValues(desc) ==
  (IF desc.style = Undefined THEN <<>> ELSE <<desc.style>>)
  \o (IF desc.weight = Undefined THEN <<>> ELSE <<desc.weight>>)
  \o (IF desc.stretch = Undefined THEN <<>> ELSE <<desc.stretch>>)

\* new FontRequiredError(family, desc)
FontRequiredError(family, desc) ==
  [name    |-> "FontRequiredError",
   message |-> Trim(family \o <<" ">> \o Join(DescValues(desc), <<" ">>)),
   family  |-> family,
   desc    |-> desc]

\* line 97: the error tryQuery throws, a plain Error whose message
\* interpolates the (undefined) font; it carries neither family nor desc
NotFoundError ==
  [name |-> "Error", message |-> "required font 'undefined' not found"]

\* lines 96-98: font being what query returned or threw
Required(font) ==
  IF font.kind = "return" /\ font.font = 0 THEN Throw(NotFoundError)
  ELSE font

\* tryQuery(family, desc) over the registry fs
tryQuery(fs, family, desc) == Required(query(fs, family, desc))

-----------------------------------------------------------------------------
(* load and the settling of a FontFace's load promise *)

\* the state of a FontFace's load: its status attribute and, once loaded,
\* the value its load promise is fulfilled with (the FontFace itself)
Unloaded == [status |-> "unloaded", value |-> 0]

\* font.load(): an unloaded FontFace starts loading; the promise returned is
\* the FontFace's own load promise
FontLoad(pr, id) ==
  IF pr[id].status = "unloaded"
    THEN [pr EXCEPT ![id] = [status |-> "loading", value |-> 0]]
    ELSE pr

\* mutant of LoadFonts: a new FontFace is added whatever query found
LoadFontsAlwaysAdds(fs, found, family, source, desc) ==
  Append(fs, FontFace(Len(fs) + 1, family, source, desc))

\* lines 111-118: the FontFace load goes on with and the registry after it:
\* the entry query found, else a new FontFace added to document.fonts
LoadFonts(fs, found, family, source, desc) ==
  IF found = 0
    THEN Append(fs, FontFace(Len(fs) + 1, family, source, desc))
    ELSE fs

LoadFont(fs, found) == IF found = 0 THEN Len(fs) + 1 ELSE found

\* lines 110-119: font being what query returned or threw
LoadFound(family, source, desc, font) ==
  IF font.kind = "throw"
    THEN /\ fonts' = fonts
         /\ promise' = promise
         /\ call' = [op |-> "load", family |-> family, source |-> source,
                     desc |-> desc, registered |-> FALSE,
                     outcome |-> [kind |-> "rejected", error |-> font.error]]
    ELSE /\ fonts' = LoadFonts(fonts, font.font, family, source, desc)
         /\ promise' =
              FontLoad([i \in 1..Len(fonts') |->
                          IF i \in DOMAIN promise THEN promise[i] ELSE Unloaded],
                       LoadFont(fonts, font.font))
         /\ call' = [op |-> "load", family |-> family, source |-> source,
                     desc |-> desc, registered |-> (font.font = 0),
                     outcome |-> [kind |-> "promise",
                                  font |-> LoadFont(fonts, font.font)]]

\* load(family, source, desc): the body holds no await, so it runs to its
\* return in one piece.  A throw of query rejects the promise of the async
\* function; otherwise the promise follows font.load() of the FontFace named
\* in the outcome.
Load(family, source, desc) ==
  /\ ncalls < MaxCalls
  /\ ncalls' = ncalls + 1
  /\ LoadFound(family, source, desc, query(fonts, family, desc))
  /\ UNCHANGED <<str, parsed>>

\* the value a FontFace's load promise is fulfilled with
LoadedValue(id) == id

\* the browser ends the load of FontFace id: its promise is fulfilled with
\* the FontFace, or rejected
Settle(id) ==
  /\ id \in DOMAIN promise
  /\ promise[id].status = "loading"
  /\ \/ promise' = [promise EXCEPT
                      ![id] = [status |-> "loaded", value |-> LoadedValue(id)]]
     \/ promise' = [promise EXCEPT ![id] = [status |-> "error", value |-> 0]]
  /\ UNCHANGED <<str, parsed, fonts, call, ncalls>>

-----------------------------------------------------------------------------
(* Strings of the model *)

Sp == <<" ">>
S400     == <<"4", "0", "0">>
S100_900 == <<"1", "0", "0", " ", "9", "0", "0">>
S900_100 == <<"9", "0", "0", " ", "1", "0", "0">>
SBolder  == <<"b", "o", "l", "d", "e", "r">>
SCondensed == <<"c", "o", "n", "d", "e", "n", "s", "e", "d">>
S50_200pc  == <<"5", "0", "%", " ", "2", "0", "0", "%">>
SObl20_30  == KwOblique \o Sp \o <<"2", "0", "d", "e", "g">> \o Sp
                        \o <<"3", "0", "d", "e", "g">>
SObl20_10  == KwOblique \o Sp \o <<"2", "0", "d", "e", "g">> \o Sp
                        \o <<"1", "0", "d", "e", "g">>
SObl25     == KwOblique \o Sp \o <<"2", "5", "d", "e", "g">>
SObl1rad   == KwOblique \o Sp \o <<"1", "r", "a", "d">>

FamX       == <<"X">>
FamQuotedX == <<"\"", "X", "\"">>
FamPaddedX == <<" ", "x", " ">>
FamY       == <<"Y">>

SrcCss == "@font-face"
SrcUrl == "url(font.woff2)"

\* an entry a style sheet put in document.fonts
CssFace(family, style, weight, stretch) ==
  FontFace(0, family, SrcCss, Desc(style, weight, stretch))

\* entries document.fonts can hold before the first call
EntryPool ==
  { CssFace(FamX, KwNormal, S100_900, KwNormal),
    CssFace(FamX, KwNormal, S400, KwNormal),
    CssFace(FamQuotedX, KwItalic, SBolder, KwNormal),
    CssFace(FamX, SObl20_30, KwBold, S50_200pc),
    CssFace(FamX, KwOblique, KwNormal, SCondensed),
    CssFace(FamY, SObl1rad, S400, KwNormal),
    [CssFace(FamX, KwNormal, S400, KwNormal) EXCEPT !.ascentOverride = "90%"],
    [CssFace(FamX, KwNormal, S400, KwNormal) EXCEPT !.descentOverride = "10%"],
    [CssFace(FamX, KwNormal, S400, KwNormal) EXCEPT !.featureSettings = "\"liga\" 0"],
    [CssFace(FamX, KwNormal, S400, KwNormal) EXCEPT !.lineGapOverride = "5%"],
    [CssFace(FamX, KwNormal, S400, KwNormal) EXCEPT !.unicodeRange = "U+0-7F"] }

\* the registries of at most n entries of pool, each entry's id its position
RECURSIVE Registries(_, _)
Registries(pool, n) ==
  IF n = 0 THEN {<<>>}
  ELSE LET prev == Registries(pool, n - 1)
       IN  prev \cup {Append(r, [e EXCEPT !.id = Len(r) + 1]) :
                        r \in {q \in prev : Len(q) = n - 1}, e \in pool}

\* the arguments of the calls of SpecQuery
QueryFamilies  == {FamX, FamPaddedX, FamY}
QueryStyles    == {Undefined, KwNormal, KwOblique, SObl20_10, SObl25}
QueryWeights   == {Undefined, S400, S900_100, KwBold}
QueryStretches == {Undefined, SCondensed}

\* the arguments of the calls of Spec
LoadInitPool ==
  { CssFace(FamX, KwNormal, S100_900, KwNormal),
    CssFace(FamX, KwItalic, SBolder, KwNormal),
    [CssFace(FamX, KwNormal, S400, KwNormal) EXCEPT !.unicodeRange = "U+0-7F"] }
LoadFamilies  == {FamX, FamQuotedX}
LoadStyles    == {Undefined, SObl20_10}
LoadWeights   == {Undefined, S400, S900_100}
LoadStretches == {Undefined}

\* the pieces the shorthand strings of SpecParse are put together from
PiecePool ==
  { Sp, KwNormal, KwBold, <<"B", "o", "l", "d">>, <<"0", "0">>,
    <<"0">>, <<"1">>, <<"5">>, <<"7">>, <<".">>, <<"a">> }

RECURSIVE Concats(_)
Concats(n) ==
  IF n = 0 THEN {<<>>}
  ELSE LET prev == Concats(n - 1)
       IN  prev \cup {p \o q : p \in prev, q \in PiecePool}

-----------------------------------------------------------------------------
(* Specifications *)

NoCall  == [op |-> "none"]
NoParse == [done |-> FALSE]

\* Spec: load calls against a registry, and the settling of the loads
Init ==
  /\ fonts \in Registries(LoadInitPool, MaxLoadInit)
  /\ promise = [i \in 1..Len(fonts) |-> Unloaded]
  /\ call = NoCall
  /\ ncalls = 0
  /\ str = <<>>
  /\ parsed = NoParse

Next ==
  \/ \E family \in LoadFamilies, style \in LoadStyles, weight \in LoadWeights,
        stretch \in LoadStretches :
       Load(family, SrcUrl, Desc(style, weight, stretch))
  \/ \E id \in DOMAIN promise : Settle(id)

Spec == Init /\ [][Next]_vars

\* SpecQuery: one call of query or tryQuery against a registry
InitQuery ==
  /\ fonts \in Registries(EntryPool, MaxInitFonts)
  /\ promise = [i \in 1..Len(fonts) |-> Unloaded]
  /\ call = NoCall
  /\ ncalls = 0
  /\ str = <<>>
  /\ parsed = NoParse

Query(family, desc) ==
  /\ call = NoCall
  /\ call' = [op |-> "query", family |-> family, desc |-> desc,
              outcome |-> query(fonts, family, desc)]
  /\ UNCHANGED <<str, parsed, fonts, promise, ncalls>>

TryQuery(family, desc) ==
  /\ call = NoCall
  /\ call' = [op |-> "tryQuery", family |-> family, desc |-> desc,
              outcome |-> tryQuery(fonts, family, desc)]
  /\ UNCHANGED <<str, parsed, fonts, promise, ncalls>>

NextQuery ==
  \E family \in QueryFamilies, style \in QueryStyles, weight \in QueryWeights,
     stretch \in QueryStretches :
       \/ Query(family, Desc(style, weight, stretch))
       \/ TryQuery(family, Desc(style, weight, stretch))

SpecQuery == InitQuery /\ [][NextQuery]_vars

\* SpecParse: parseFontWeight applied to a shorthand string
InitParse ==
  /\ str \in Concats(MaxPieces)
  /\ parsed = NoParse
  /\ fonts = <<>>
  /\ promise = <<>>
  /\ call = NoCall
  /\ ncalls = 0

ParseWeight ==
  /\ parsed = NoParse
  /\ parsed' = [done |-> TRUE, result |-> parseFontWeight(str)]
  /\ UNCHANGED <<str, fonts, call, promise, ncalls>>

NextParse == ParseWeight

SpecParse == InitParse /\ [][NextParse]_vars

-----------------------------------------------------------------------------
(* What the claims speak of, stated apart from the loop of query *)

\* the entry at position i of document.fonts (an entry's id is its position)
Positions == 1..Len(fonts)

\* every structural eligibility field holds its default sentinel
AllDefault(e) ==
  /\ e.ascentOverride = "normal"
  /\ e.descentOverride = "normal"
  /\ e.featureSettings = "normal"
  /\ e.lineGapOverride = "normal"
  /\ e.unicodeRange = "U+0-10FFFF"

SameFamily(e, family) ==
  normalizeFontFamily(e.family) = normalizeFontFamily(family)

\* containment of section 4.3: outer.low <= inner.low and outer.high >= inner.high
Contains(outer, inner) == Leq(outer[1], inner[1]) /\ Leq(inner[2], outer[2])

\* the shorthand strings of the model, and what the parsers make of each
\* (computed once)
StyleStrings ==
  {e.style : e \in EntryPool \cup LoadInitPool}
    \cup ((QueryStyles \cup LoadStyles) \ {Undefined}) \cup {KwNormal}
WeightStrings ==
  {e.weight : e \in EntryPool \cup LoadInitPool}
    \cup ((QueryWeights \cup LoadWeights) \ {Undefined}) \cup {KwNormal}
StretchStrings ==
  {e.stretch : e \in EntryPool \cup LoadInitPool}
    \cup ((QueryStretches \cup LoadStretches) \ {Undefined}) \cup {KwNormal}

ParsedStyle   == [s \in StyleStrings |-> parseFontStyle(s)]
ParsedWeight  == [s \in WeightStrings |-> parseFontWeight(s)]
ParsedStretch == [s \in StretchStrings |-> parseFontStretch(s)]

\* every descriptor the query supplies parses
ValidQuery(desc) ==
  /\ Truthy(desc.style) => ParsedStyle[desc.style].ok
  /\ Truthy(desc.weight) => ParsedWeight[desc.weight].ok
  /\ Truthy(desc.stretch) => ParsedStretch[desc.stretch].ok

\* the entry's shorthand parses and passes the check of the field
StylePasses(e, desc) ==
  LET es == ParsedStyle[e.style]
      qs == ParsedStyle[desc.style]
  IN  /\ es.ok
      /\ es.val.style = qs.val.style
      /\ \/ qs.val.obliqueAngle = Undefined
         \/ Contains(es.val.obliqueAngle, qs.val.obliqueAngle)

WeightPasses(e, desc) ==
  LET ew == ParsedWeight[e.weight]
  IN  ew.ok /\ Contains(ew.val, ParsedWeight[desc.weight].val)

StretchPasses(e, desc) ==
  LET et == ParsedStretch[e.stretch]
  IN  et.ok /\ Contains(et.val, ParsedStretch[desc.stretch].val)

\* the entry passes every check of a valid query: family, structural fields,
\* and style, weight and stretch for exactly the fields the query supplies
Passes(e, family, desc) ==
  /\ SameFamily(e, family)
  /\ AllDefault(e)
  /\ Truthy(desc.style) => StylePasses(e, desc)
  /\ Truthy(desc.weight) => WeightPasses(e, desc)
  /\ Truthy(desc.stretch) => StretchPasses(e, desc)

\* the entry's own shorthand fails to parse in some field the query supplies
UnparseableRequested(e, desc) ==
  \/ Truthy(desc.style) /\ ~ParsedStyle[e.style].ok
  \/ Truthy(desc.weight) /\ ~ParsedWeight[e.weight].ok
  \/ Truthy(desc.stretch) /\ ~ParsedStretch[e.stretch].ok

\* the entry's own shorthand fails to parse in a field the query supplies,
\* and the entry passes the checks of the supplied fields before that one
\* (in the order style, weight, stretch)
UnparseableWhereChecked(e, desc) ==
  \/ Truthy(desc.style) /\ ~ParsedStyle[e.style].ok
  \/ /\ Truthy(desc.style) => StylePasses(e, desc)
     /\ Truthy(desc.weight) /\ ~ParsedWeight[e.weight].ok
  \/ /\ Truthy(desc.style) => StylePasses(e, desc)
     /\ Truthy(desc.weight) => WeightPasses(e, desc)
     /\ Truthy(desc.stretch) /\ ~ParsedStretch[e.stretch].ok

\* the scan reaches entry i with the family test and the structural tests
\* passed: no earlier entry matched
Reached(i, family, desc) ==
  /\ SameFamily(fonts[i], family)
  /\ AllDefault(fonts[i])
  /\ \A j \in 1..(i - 1) : ~Passes(fonts[j], family, desc)

\* entry j makes the scan raise
Raises(j, family, desc) ==
  /\ SameFamily(fonts[j], family)
  /\ AllDefault(fonts[j])
  /\ UnparseableWhereChecked(fonts[j], desc)

\* the entry is what new FontFace(family, source, desc) declares: the same
\* family and the same style, weight and stretch
ExactEntry(e, family, desc) ==
  /\ e.family = family
  /\ e.style = (IF desc.style = Undefined THEN KwNormal ELSE desc.style)
  /\ e.weight = (IF desc.weight = Undefined THEN KwNormal ELSE desc.weight)
  /\ e.stretch = (IF desc.stretch = Undefined THEN KwNormal ELSE desc.stretch)

QueryReturned == call.op = "query" /\ call.outcome.kind = "return"

-----------------------------------------------------------------------------
(* Claims on query and tryQuery, checked under SpecQuery *)

\* C3: query is a first-match search.  Whenever query returns on a valid
\* query, it returns the first entry, in the registry's order, that has the
\* query's normalized family, every structural field at its default and
\* passes the style, weight and stretch checks of exactly the fields the
\* query supplies; it returns undefined iff no entry passes.
C3_FirstMatch ==
  (QueryReturned /\ ValidQuery(call.desc)) =>
    LET P == {i \in Positions : Passes(fonts[i], call.family, call.desc)}
    IN  call.outcome.font = IF P = {} THEN 0 ELSE fonts[SetMin(P)].id

\* C3 witness: two entries pass, the first of them is returned, and it is an
\* entry whose style is not normal, the query having left the style out
C3_Witness ==
  /\ QueryReturned
  /\ call.desc.style = Undefined
  /\ Truthy(call.desc.weight)
  /\ call.outcome.font = 1
  /\ Len(fonts) = 2
  /\ fonts[1].style # KwNormal
  /\ Passes(fonts[2], call.family, call.desc)

\* C4: query (and tryQuery) never returns an entry one of whose structural
\* eligibility fields differs from its default.
C4_NeverStructural ==
  (call.op \in {"query", "tryQuery"} /\ call.outcome.kind = "return"
     /\ call.outcome.font # 0)
    => \E i \in Positions :
         fonts[i].id = call.outcome.font /\ AllDefault(fonts[i])

\* C4 witness: the only entry declares exactly the family and descriptors
\* of the query but a custom unicodeRange, and query returns undefined
C4_Witness ==
  /\ QueryReturned
  /\ call.outcome.font = 0
  /\ Len(fonts) = 1
  /\ Truthy(call.desc.weight)
  /\ ExactEntry(fonts[1], call.family, call.desc)
  /\ fonts[1].unicodeRange # "U+0-10FFFF"

\* C5: tryQuery returns the entry when query returns one, and when query
\* returns undefined it throws a FontRequiredError carrying the family and
\* the descriptor of the request.
C5_RequireRaisesFontRequired ==
  call.op = "tryQuery" =>
    LET q == query(fonts, call.family, call.desc)
    IN  /\ (q.kind = "return" /\ q.font # 0) => call.outcome = q
        /\ (q.kind = "return" /\ q.font = 0) =>
             call.outcome = Throw(FontRequiredError(call.family, call.desc))

\* C6 as claimed: when the scan reaches an entry (family and structural
\* fields passing, no earlier entry matched) whose shorthand fails to parse
\* in any field the query supplies, query throws.
C6_Original ==
  (call.op = "query" /\ ValidQuery(call.desc)) =>
    \A i \in Positions :
      (Reached(i, call.family, call.desc)
         /\ UnparseableRequested(fonts[i], call.desc))
        => call.outcome.kind = "throw"

\* C6 as amended: when the scan reaches such an entry whose shorthand fails
\* to parse in a supplied field, and the entry passes the checks of the
\* supplied fields that come before that field (style, then weight, then
\* stretch), query throws a SyntaxError instead of going on or returning.
C6_Amended ==
  (call.op = "query" /\ ValidQuery(call.desc)) =>
    \A i \in Positions :
      (Reached(i, call.family, call.desc)
         /\ UnparseableWhereChecked(fonts[i], call.desc))
        => /\ call.outcome.kind = "throw"
           /\ call.outcome.error.name = "SyntaxError"

\* C6 witness: the query leaves the style out, the scan reaches an entry
\* whose weight shorthand does not parse, and query throws on that shorthand
C6_Witness ==
  /\ call.op = "query"
  /\ call.desc.style = Undefined
  /\ call.outcome.kind = "throw"
  /\ call.outcome.error.raw = SBolder
  /\ \E i \in Positions : fonts[i].weight = SBolder

\* C7 as claimed, read in its favour (the entry's structural fields at their
\* default, query returning rather than throwing on another entry, and any
\* entry with exactly these declarations counting as that entry): when the
\* registry holds an entry that declares exactly the family and descriptors
\* of the query, query returns such an entry.
C7_Original ==
  (QueryReturned /\ ValidQuery(call.desc)) =>
    ((\E i \in Positions :
        ExactEntry(fonts[i], call.family, call.desc) /\ AllDefault(fonts[i]))
      => /\ call.outcome.font # 0
         /\ ExactEntry(fonts[call.outcome.font], call.family, call.desc))

\* C7 as amended: when the registry holds such an entry at position i and
\* its structural fields are all default, query returns an entry at or
\* before i, or throws on an earlier entry whose shorthand does not parse;
\* it returns the entry at i when no earlier entry passes or makes it throw.
C7_Amended ==
  (call.op = "query" /\ ValidQuery(call.desc)) =>
    \A i \in Positions :
      (ExactEntry(fonts[i], call.family, call.desc) /\ AllDefault(fonts[i]))
        => /\ call.outcome.kind = "return" => call.outcome.font \in 1..i
           /\ call.outcome.kind = "throw" =>
                \E j \in 1..(i - 1) : Raises(j, call.family, call.desc)
           /\ (\A j \in 1..(i - 1) :
                 /\ ~Passes(fonts[j], call.family, call.desc)
                 /\ ~Raises(j, call.family, call.desc))
                => call.outcome = Return(fonts[i].id)

\* C7 witness: the second entry declares exactly the weight of the query
\* and is returned, the first entry being of the same family
C7_Witness ==
  /\ QueryReturned
  /\ Len(fonts) = 2
  /\ Truthy(call.desc.weight)
  /\ SameFamily(fonts[1], call.family)
  /\ ExactEntry(fonts[2], call.family, call.desc)
  /\ call.outcome.font = 2

\* the query's style is the bare keyword oblique
BareOblique(desc) ==
  Truthy(desc.style) /\ ToLowerCase(Trim(desc.style)) = KwOblique

\* eligible but for the oblique angle: family, structural fields, a style
\* with keyword oblique, and the weight and stretch checks
ObliqueEligible(e, family, desc) ==
  /\ SameFamily(e, family)
  /\ AllDefault(e)
  /\ ParsedStyle[e.style].ok
  /\ ParsedStyle[e.style].val.style = KwOblique
  /\ Truthy(desc.weight) => WeightPasses(e, desc)
  /\ Truthy(desc.stretch) => StretchPasses(e, desc)

\* the entry's oblique angle range holds 14 degrees
Holds14deg(e) ==
  LET a == ParsedStyle[e.style].val.obliqueAngle
  IN  Leq(a[1], Num(14)) /\ Leq(Num(14), a[2])

\* C9 as claimed: on a query whose style is bare oblique the angle check is
\* skipped, so the first entry eligible but for its angle range is returned.
C9_Original ==
  (QueryReturned /\ ValidQuery(call.desc) /\ BareOblique(call.desc)) =>
    LET P == {i \in Positions :
                ObliqueEligible(fonts[i], call.family, call.desc)}
    IN  P # {} => call.outcome.font = fonts[SetMin(P)].id

\* C9 as amended: on a query whose style is bare oblique the angle check is
\* made with the default range [14, 14]: query returns the first entry
\* eligible but for its angle whose angle range holds 14 degrees, and
\* undefined when there is none.
C9_Amended ==
  (QueryReturned /\ ValidQuery(call.desc) /\ BareOblique(call.desc)) =>
    LET P == {i \in Positions :
                /\ ObliqueEligible(fonts[i], call.family, call.desc)
                /\ Holds14deg(fonts[i])}
    IN  call.outcome.font = IF P = {} THEN 0 ELSE fonts[SetMin(P)].id

\* C9 witness: bare oblique is asked for, the first entry declares oblique
\* 20deg 30deg and is passed over, the second declares bare oblique and is
\* returned
C9_Witness ==
  /\ QueryReturned
  /\ BareOblique(call.desc)
  /\ Len(fonts) = 2
  /\ ObliqueEligible(fonts[1], call.family, call.desc)
  /\ fonts[1].style = SObl20_30
  /\ call.outcome.font = 2

\* a parsed range whose first value is greater than its second
Inverted(r) == ~Leq(r[1], r[2])

\* a supplied field of the query parses to an inverted range
HasInverted(desc) ==
  \/ /\ Truthy(desc.style) /\ ParsedStyle[desc.style].ok
     /\ ParsedStyle[desc.style].val.obliqueAngle # Undefined
     /\ Inverted(ParsedStyle[desc.style].val.obliqueAngle)
  \/ /\ Truthy(desc.weight) /\ ParsedWeight[desc.weight].ok
     /\ Inverted(ParsedWeight[desc.weight].val)
  \/ /\ Truthy(desc.stretch) /\ ParsedStretch[desc.stretch].ok
     /\ Inverted(ParsedStretch[desc.stretch].val)

\* the throw, if any, is not about a shorthand of the query
QueryShorthandParsed ==
  call.outcome.kind = "throw" =>
    call.outcome.error.raw
      \notin {call.desc.style, call.desc.weight, call.desc.stretch}

\* C10 as claimed: an inverted pair parses without error and matches no
\* entry: a query carrying one in a supplied field returns undefined.
C10_Original ==
  (call.op = "query" /\ HasInverted(call.desc)) =>
    /\ QueryShorthandParsed
    /\ call.outcome.kind = "return" => call.outcome.font = 0

\* C10 as amended: an inverted pair parses without error, and is not
\* empty-matching: a query carrying the pair [a, b] in a supplied field
\* matches the entries whose range [lo, hi] in that field has lo <= a and
\* hi >= b (the other checks passing), and returns the first of them.
C10_Amended ==
  (call.op = "query" /\ ValidQuery(call.desc) /\ HasInverted(call.desc)) =>
    /\ QueryShorthandParsed
    /\ call.outcome.kind = "return" =>
         LET P == {i \in Positions : Passes(fonts[i], call.family, call.desc)}
         IN  call.outcome.font = IF P = {} THEN 0 ELSE fonts[SetMin(P)].id

\* C10 witness: the query asks for weight 900 100 and is given an entry
\* that declares weight 100 900
C10_Witness ==
  /\ QueryReturned
  /\ call.desc.weight = S900_100
  /\ call.outcome.font # 0
  /\ fonts[call.outcome.font].weight = S100_900

-----------------------------------------------------------------------------
(* Claims on load, checked under Spec *)

\* a step that is a call of load
LoadStep == ncalls' = ncalls + 1

\* a load promise that is fulfilled yields its own FontFace
FulfilledYieldsEntry ==
  \A i \in DOMAIN promise :
    promise[i].status = "loaded" => promise[i].value = fonts[i].id

\* C1: under any interleaving of load calls and load completions, a call of
\* load with a valid descriptor adds exactly one new entry to the registry
\* when query returns undefined on the registry at call time and adds none
\* when query returns an entry; the promise it returns is the load promise of
\* the entry found or registered, and that promise is fulfilled with that
\* entry.
C1_LoadRegistersOnce ==
  [][ /\ LoadStep =>
           LET q == query(fonts, call'.family, call'.desc)
           IN  /\ (q.kind = "return" /\ q.font = 0) =>
                    /\ Len(fonts') = Len(fonts) + 1
                    /\ SubSeq(fonts', 1, Len(fonts)) = fonts
                    /\ \A i \in 1..Len(fonts) :
                         fonts[i].id # fonts'[Len(fonts')].id
                    /\ call'.outcome =
                         [kind |-> "promise", font |-> fonts'[Len(fonts')].id]
               /\ (q.kind = "return" /\ q.font # 0) =>
                    /\ fonts' = fonts
                    /\ call'.outcome = [kind |-> "promise", font |-> q.font]
      /\ FulfilledYieldsEntry'
    ]_vars

\* C1 witness: two calls were made; the second ran no document.fonts.add and
\* returned the promise of an entry a call of load registered, and that
\* promise is fulfilled with the entry
C1_Witness ==
  /\ ncalls = 2
  /\ call.op = "load"
  /\ call.outcome.kind = "promise"
  /\ ~call.registered
  /\ fonts[call.outcome.font].source = SrcUrl
  /\ promise[call.outcome.font].status = "loaded"
  /\ promise[call.outcome.font].value = call.outcome.font

\* C2: load is idempotent on the registry: a call of load with the arguments
\* of the call before it leaves the registry as that call left it, and
\* returns the promise of the same entry without registering one.
C2_LoadIdempotent ==
  [][ ( /\ LoadStep
        /\ call.op = "load"
        /\ call'.family = call.family
        /\ call'.source = call.source
        /\ call'.desc = call.desc )
      => /\ fonts' = fonts
         /\ call.outcome.kind = "promise" =>
              /\ call'.outcome = call.outcome
              /\ ~call'.registered
    ]_vars

\* C2 witness: the second of two calls asked for the two-token weight
\* 900 100 and found the entry registered with exactly its arguments
C2_Witness ==
  /\ ncalls = 2
  /\ call.op = "load"
  /\ call.outcome.kind = "promise"
  /\ ~call.registered
  /\ call.desc.weight = S900_100
  /\ fonts[call.outcome.font].source = call.source
  /\ ExactEntry(fonts[call.outcome.font], call.family, call.desc)

-----------------------------------------------------------------------------
(* Claim on parseFontWeight, checked under SpecParse *)

\* a plain number: digits, then optionally a dot and at least one digit
PlainNumber(t) ==
  /\ t # <<>>
  /\ \E k \in 0..Len(t) :
       /\ AllDigits(SubSeq(t, 1, k))
       /\ \/ k = Len(t)
          \/ /\ Len(t) >= k + 2
             /\ t[k + 1] = "."
             /\ AllDigits(SubSeq(t, k + 2, Len(t)))

\* the value of a token of the weight grammar
WeightTokenValue(t) ==
  IF t = KwNormal THEN Num(400)
  ELSE IF t = KwBold THEN Num(700)
  ELSE ParseFloat(t)

\* a token of the weight grammar: normal, bold, or a plain number in [1, 1000]
WeightToken(t) ==
  \/ t \in {KwNormal, KwBold}
  \/ /\ PlainNumber(t)
     /\ Leq(Num(1), ParseFloat(t))
     /\ Leq(ParseFloat(t), Num(1000))

\* C8: parseFontWeight accepts exactly the strings of one or two
\* whitespace-separated tokens each of which is normal, bold or a plain
\* number in [1, 1000], and returns [v, v] or [v0, v1]; it throws on every
\* other string.
C8_WeightGrammar ==
  parsed # NoParse =>
    LET toks == SplitWs(ToLowerCase(Trim(str)))
        good == /\ Len(toks) \in {1, 2}
                /\ \A i \in 1..Len(toks) : WeightToken(toks[i])
    IN  /\ parsed.result.ok <=> good
        /\ (parsed.result.ok /\ good) =>
             parsed.result.val = <<WeightTokenValue(toks[1]),
                                   WeightTokenValue(toks[Len(toks)])>>

=============================================================================
